---- MODULE Spec2Model ----
(***************************************************************************)
(* Model of the DevOps toolchain repository:                               *)
(*   - devops-toolchain/cli/devopsctl.py : the pipeline runner             *)
(*     (main, cmd_<stage>, cmd_all, run_script)                            *)
(*   - service/src/utils.py : parse_version, bump_version,                 *)
(*     load_json_file, save_json_file, generate_id                         *)
(* Four specifications share the variables: Spec (the CLI), SpecVersion    *)
(* (the version utilities), SpecJson (the JSON persistence helpers) and    *)
(* SpecId (the identifier generator).                                      *)
(***************************************************************************)
EXTENDS Integers, Sequences, FiniteSets, TLC

VARIABLES
    \* ---- devopsctl.py ----
    command,    \* args.command, the positional argument of the CLI
    win32,      \* sys.platform == "win32"
    gitBash,    \* Path("C:/Program Files/Git/bin/bash.exe").exists()
    bashInPath, \* whether the name "bash" resolves to an executable
    scripts,    \* the stages whose SCRIPTS_DIR/<stage>.sh exists now
    pc,         \* position of the (single) thread of control
    idx,        \* cmd_all: position of the for loop in `stages`
    cur,        \* run_script: script_name of the call in progress
    result,     \* value returned by the last run_script / stage_func call
    ret,        \* value returned by main() (None until it returns)
    running,    \* shell_cmds of the subprocesses started and not yet exited
    calls,      \* history: one record per run_script call, in call order
    \* ---- utils.py: version utilities ----
    vstr,       \* version_string argument
    vkind,      \* bump_type argument ("default" = argument omitted)
    vop,        \* which function was called, "idle" before the call
    vout,       \* outcome of the call
    \* ---- utils.py: JSON persistence helpers ----
    dirs,       \* directories of the file system (paths)
    files,      \* regular files of the file system: path -> text content
    jpc,        \* position of the JSON scenario
    jpath,      \* filepath argument
    jdata,      \* data argument of save_json_file
    jout,       \* outcome of the last call
    \* ---- utils.py: identifier generator ----
    gprefix,    \* prefix argument of every generate_id call of the run
    gpid,       \* os.getpid() of the process
    gclock,     \* the system's UTC wall clock, in microseconds
    gmoved,     \* whether the clock has moved since the last call
    gstamps,    \* history: the clock value each call read, in call order
    gids        \* the strings the calls returned, in call order

cliVars  == <<command, win32, gitBash, bashInPath, scripts, pc, idx, cur,
              result, ret, running, calls>>
verVars  == <<vstr, vkind, vop, vout>>
jsonVars == <<dirs, files, jpc, jpath, jdata, jout>>
idVars   == <<gprefix, gpid, gclock, gmoved, gstamps, gids>>
vars     == <<cliVars, verVars, jsonVars, idVars>>

None == "None"

(***************************************************************************)
(*                       devopsctl.py : pipeline runner                    *)
(***************************************************************************)

\* mutant of stages: the test stage listed before the lint stage
stages_Swapped == <<"test", "lint", "build", "docker", "publish">>

\* cmd_all's `stages` list, by the script each stage function runs
stages == <<"lint", "test", "build", "docker", "publish">>

Stages == {"lint", "test", "build", "docker", "publish"}

\* the `choices` of the positional argument
Commands == Stages \cup {"all", "version", "help"}

\* Exit codes a subprocess can report through result.returncode: 0..MaxExit
\* from exit(), and -MaxSignal..-1 when the child is killed by a signal.
MaxExit == 2
MaxSignal == 1
ExitCodes == (0 - MaxSignal)..MaxExit

\* script_path = SCRIPTS_DIR / f"{script_name}.sh"
script_path(script_name) == <<"scripts", script_name, ".sh">>

\* the shell run_script selects for the platform
shell_cmd(script_name) ==
    IF win32 /\ gitBash
    THEN <<"C:/Program Files/Git/bin/bash.exe", script_path(script_name)>>
    ELSE <<"bash", script_path(script_name)>>

\* subprocess.run raises FileNotFoundError iff the executable is not found
shellFound == (win32 /\ gitBash) \/ bashInPath

CliIdle ==
    /\ command = None /\ win32 = FALSE /\ gitBash = FALSE /\ bashInPath = FALSE
    /\ scripts = {} /\ pc = "idle" /\ idx = 0 /\ cur = None /\ result = None
    /\ ret = None /\ running = {} /\ calls = <<>>

CliInit ==
    /\ command \in Commands
    /\ win32 \in BOOLEAN
    /\ gitBash \in (IF win32 THEN BOOLEAN ELSE {FALSE})
    /\ bashInPath \in BOOLEAN
    /\ scripts \in SUBSET Stages
    /\ pc = "main"
    /\ idx = 0
    /\ cur = None
    /\ result = None
    /\ ret = None
    /\ running = {}
    /\ calls = <<>>

\* main(): command dispatch through the `commands` dict
MainStage ==
    /\ pc = "main" /\ command \in Stages
    /\ pc' = "run_script" /\ cur' = command
    /\ UNCHANGED <<command, win32, gitBash, bashInPath, scripts, idx, result,
                   ret, running, calls>>

MainAll ==
    /\ pc = "main" /\ command = "all"
    /\ pc' = "cmd_all" /\ idx' = 1
    /\ UNCHANGED <<command, win32, gitBash, bashInPath, scripts, cur, result,
                   ret, running, calls>>

\* cmd_version / cmd_help
MainInfo ==
    /\ pc = "main" /\ command \in {"version", "help"}
    /\ pc' = "exit" /\ ret' = 0
    /\ UNCHANGED <<command, win32, gitBash, bashInPath, scripts, idx, cur,
                   result, running, calls>>

\* cmd_all: head of `for stage_name, stage_func in stages`; the loop either
\* calls the next stage function or, the list exhausted, returns 0
CmdAllLoop ==
    /\ pc = "cmd_all"
    /\ IF idx <= Len(stages)
       THEN /\ pc' = "run_script" /\ cur' = stages[idx]
            /\ UNCHANGED ret
       ELSE /\ pc' = "exit" /\ ret' = 0
            /\ UNCHANGED cur
    /\ UNCHANGED <<command, win32, gitBash, bashInPath, scripts, idx, result,
                   running, calls>>

\* History record of a run_script call: the script asked for, whether its file
\* existed and the shell was found when the call was made, whether a child
\* was started, whether it has exited and with which code (rc), whether the
\* call has returned and which value (ret). rc and ret are None until then.
CallRecord(started, returned, value) ==
    [script |-> cur, exists |-> cur \in scripts, shell |-> shellFound,
     started |-> started, exited |-> FALSE, rc |-> None,
     returned |-> returned, ret |-> value]

\* mutant of RunScriptMissing: no existence check, the shell is started on
\* the missing script
RunScriptMissing_NoCheck ==
    /\ pc = "run_script" /\ cur \notin scripts
    /\ running' = running \cup {shell_cmd(cur)}
    /\ pc' = "waiting"
    /\ calls' = Append(calls, CallRecord(TRUE, FALSE, None))
    /\ UNCHANGED <<command, win32, gitBash, bashInPath, scripts, idx, cur,
                   result, ret>>

\* run_script: `if not script_path.exists(): return 1`
RunScriptMissing ==
    /\ pc = "run_script" /\ cur \notin scripts
    /\ result' = 1
    /\ pc' = "returned"
    /\ calls' = Append(calls, CallRecord(FALSE, TRUE, 1))
    /\ UNCHANGED <<command, win32, gitBash, bashInPath, scripts, idx, cur,
                   ret, running>>

\* run_script: subprocess.run raises FileNotFoundError, `return 1`
RunScriptNoBash ==
    /\ pc = "run_script" /\ cur \in scripts /\ ~shellFound
    /\ result' = 1
    /\ pc' = "returned"
    /\ calls' = Append(calls, CallRecord(FALSE, TRUE, 1))
    /\ UNCHANGED <<command, win32, gitBash, bashInPath, scripts, idx, cur,
                   ret, running>>

\* mutant of RunScriptSpawn: the child is started and not waited for
\* (subprocess.Popen), the call returns 0 at once
RunScriptSpawn_NoWait ==
    /\ pc = "run_script" /\ cur \in scripts /\ shellFound
    /\ running' = running \cup {shell_cmd(cur)}
    /\ result' = 0
    /\ pc' = "returned"
    /\ calls' = Append(calls, CallRecord(TRUE, TRUE, 0))
    /\ UNCHANGED <<command, win32, gitBash, bashInPath, scripts, idx, cur,
                   ret>>

\* run_script: subprocess.run starts the child and blocks
RunScriptSpawn ==
    /\ pc = "run_script" /\ cur \in scripts /\ shellFound
    /\ running' = running \cup {shell_cmd(cur)}
    /\ pc' = "waiting"
    /\ calls' = Append(calls, CallRecord(TRUE, FALSE, None))
    /\ UNCHANGED <<command, win32, gitBash, bashInPath, scripts, idx, cur,
                   result, ret>>

\* mutant of ReturnCode: every failure reported as 1
ReturnCode_Normalised(c) == IF c = 0 THEN 0 ELSE 1

\* the value run_script returns for a child that exited with returncode c
ReturnCode(c) == c

\* the child exits with code c (having possibly added or removed scripts of
\* the project it ran in); subprocess.run returns, `return result.returncode`
SubprocessExit ==
    /\ pc = "waiting"
    /\ \E c \in ExitCodes, s \in SUBSET Stages :
          /\ result' = ReturnCode(c)
          /\ scripts' = s
          /\ calls' = [calls EXCEPT ![Len(calls)].exited = TRUE,
                                    ![Len(calls)].rc = c,
                                    ![Len(calls)].returned = TRUE,
                                    ![Len(calls)].ret = ReturnCode(c)]
    /\ running' = running \ {shell_cmd(cur)}
    /\ pc' = "returned"
    /\ UNCHANGED <<command, win32, gitBash, bashInPath, idx, cur, ret>>

\* cmd_<stage> returns run_script's value to main, which returns it
StageReturnMain ==
    /\ pc = "returned" /\ command # "all"
    /\ ret' = result
    /\ pc' = "exit"
    /\ UNCHANGED <<command, win32, gitBash, bashInPath, scripts, idx, cur,
                   result, running, calls>>

\* mutant of StageReturnAll: the result of the stage is not tested, the loop
\* goes on
StageReturnAll_IgnoresFailure ==
    /\ pc = "returned" /\ command = "all"
    /\ idx' = idx + 1 /\ pc' = "cmd_all"
    /\ UNCHANGED <<command, win32, gitBash, bashInPath, scripts, cur, result,
                   ret, running, calls>>

\* mutant of StageReturnAll: `return 1` in place of `return result`
StageReturnAll_ReturnsOne ==
    /\ pc = "returned" /\ command = "all"
    /\ IF result # 0
       THEN /\ ret' = 1 /\ pc' = "exit" /\ UNCHANGED idx
       ELSE /\ idx' = idx + 1 /\ pc' = "cmd_all" /\ UNCHANGED ret
    /\ UNCHANGED <<command, win32, gitBash, bashInPath, scripts, cur, result,
                   running, calls>>

\* cmd_all: `result = stage_func()`, `if result != 0: return result`
StageReturnAll ==
    /\ pc = "returned" /\ command = "all"
    /\ IF result # 0
       THEN /\ ret' = result /\ pc' = "exit" /\ UNCHANGED idx
       ELSE /\ idx' = idx + 1 /\ pc' = "cmd_all" /\ UNCHANGED ret
    /\ UNCHANGED <<command, win32, gitBash, bashInPath, scripts, cur, result,
                   running, calls>>

(***************************************************************************)
(*                  utils.py : parse_version, bump_version                 *)
(***************************************************************************)

\* Strings are sequences of characters. The characters the inputs are drawn
\* from: three digits, the separator, a letter and the minus sign.
Alphabet == {"0", "1", "9", ".", "x", "-"}

\* the longest version_string tried
MaxLen == 6

RECURSIVE StringsUpTo(_)
StringsUpTo(n) ==
    IF n = 0 THEN {<<>>}
    ELSE LET shorter == StringsUpTo(n - 1) IN
         shorter \cup {Append(t, ch) : t \in {u \in shorter : Len(u) = n - 1},
                                      ch \in Alphabet}

VersionStrings == StringsUpTo(MaxLen)

DigitChars == <<"0", "1", "2", "3", "4", "5", "6", "7", "8", "9">>

IsDigit(ch) == \E d \in 1..10 : DigitChars[d] = ch

DigitValue(ch) == (CHOOSE d \in 1..10 : DigitChars[d] = ch) - 1

\* str.split(sep): the pieces of s between the occurrences of sep; a string
\* without sep (the empty string too) gives one piece
RECURSIVE split(_, _)
split(s, sep) ==
    IF \A i \in 1..Len(s) : s[i] # sep
    THEN <<s>>
    ELSE LET i == CHOOSE j \in 1..Len(s) :
                      s[j] = sep /\ \A k \in 1..(j - 1) : s[k] # sep
         IN <<SubSeq(s, 1, i - 1)>> \o split(SubSeq(s, i + 1, Len(s)), sep)

\* whether int(p) accepts p: an optional minus sign and at least one digit
\* (of the characters of Alphabet; int raises ValueError otherwise)
IntAccepts(p) ==
    LET body == IF Len(p) > 0 /\ p[1] = "-" THEN Tail(p) ELSE p IN
    /\ Len(body) > 0
    /\ \A i \in 1..Len(body) : IsDigit(body[i])

RECURSIVE DigitsValue(_)
DigitsValue(ds) ==
    IF ds = <<>> THEN 0
    ELSE 10 * DigitsValue(SubSeq(ds, 1, Len(ds) - 1)) + DigitValue(ds[Len(ds)])

\* int(p), for a p that int accepts
int(p) ==
    IF p[1] = "-" THEN 0 - DigitsValue(Tail(p)) ELSE DigitsValue(p)

\* the decimal digits of a natural number, without leading zeros
RECURSIVE NatStr(_)
NatStr(n) ==
    IF n < 10 THEN <<DigitChars[n + 1]>>
    ELSE Append(NatStr(n \div 10), DigitChars[(n % 10) + 1])

\* str(n) as the f-string formats an int
str(n) == IF n < 0 THEN <<"-">> \o NatStr(0 - n) ELSE NatStr(n)

\* parts[:3]
FirstThree(parts) == SubSeq(parts, 1, IF Len(parts) < 3 THEN Len(parts) ELSE 3)

Ok(v) == [exc |-> "none", val |-> v]
Raise(e) == [exc |-> e, val |-> None]

\* parse_version: `parts = version_string.split('.')`,
\* `return tuple(int(p) for p in parts[:3])`
parse_version(version_string) ==
    LET parts == FirstThree(split(version_string, ".")) IN
    IF \E i \in 1..Len(parts) : ~IntAccepts(parts[i])
    THEN Raise("ValueError")
    ELSE Ok([i \in 1..Len(parts) |-> int(parts[i])])

\* the bump kinds a caller passes; Omitted stands for a call without bump_type
Omitted == "omitted"
BumpKinds == {"major", "minor", "patch", Omitted}

\* the parameter default: bump_type: str = "patch"
bump_type_of(kind) == IF kind = Omitted THEN "patch" ELSE kind

\* mutant of bumped: the lower components are not reset
bumped_NoReset(t, bump_type) ==
    IF bump_type = "major" THEN <<t[1] + 1, t[2], t[3]>>
    ELSE IF bump_type = "minor" THEN <<t[1], t[2] + 1, t[3]>>
    ELSE <<t[1], t[2], t[3] + 1>>

\* the if / elif / else of bump_version on the unpacked triple
bumped(t, bump_type) ==
    IF bump_type = "major" THEN <<t[1] + 1, 0, 0>>
    ELSE IF bump_type = "minor" THEN <<t[1], t[2] + 1, 0>>
    ELSE <<t[1], t[2], t[3] + 1>>

\* bump_version: `major, minor, patch = parse_version(version_string)` raises
\* ValueError when parse_version does or when the tuple is not of length 3;
\* the result is f"{major}.{minor}.{patch}"
bump_version(version_string, kind) ==
    LET parsed == parse_version(version_string) IN
    IF parsed.exc # "none" THEN parsed
    ELSE IF Len(parsed.val) # 3 THEN Raise("ValueError")
    ELSE LET t == bumped(parsed.val, bump_type_of(kind)) IN
         Ok(str(t[1]) \o <<".">> \o str(t[2]) \o <<".">> \o str(t[3]))

VerInit ==
    /\ vstr \in VersionStrings
    /\ vkind = None
    /\ vop = "idle"
    /\ vout = None

\* a caller calls parse_version(vstr)
CallParseVersion ==
    /\ vop = "idle"
    /\ vop' = "parse_version"
    /\ vout' = parse_version(vstr)
    /\ UNCHANGED <<vstr, vkind>>

\* a caller calls bump_version(vstr) or bump_version(vstr, kind)
CallBumpVersion ==
    /\ vop = "idle"
    /\ \E kind \in BumpKinds :
          /\ vkind' = kind
          /\ vout' = bump_version(vstr, kind)
    /\ vop' = "bump_version"
    /\ UNCHANGED vstr

VerIdle == vstr = <<>> /\ vkind = None /\ vop = "idle" /\ vout = None

(***************************************************************************)
(*                utils.py : load_json_file, save_json_file                *)
(***************************************************************************)

\* File names, the deepest path tried and the most entries (files and
\* directories) the file system holds before the first call
Names == {"a", "b"}
MaxDepth == 3
MaxEntries == 2

RECURSIVE NodesUpTo(_)
NodesUpTo(n) ==
    IF n = 0 THEN {<<>>}
    ELSE LET shorter == NodesUpTo(n - 1) IN
         shorter \cup {Append(t, nm) : t \in {u \in shorter : Len(u) = n - 1},
                                      nm \in Names}

\* A node of the file system is the sequence of names leading to it from the
\* root, <<>>, which is also the working directory.
Nodes == NodesUpTo(MaxDepth) \ {<<>>}

\* A filepath argument: absolute ("/a/b") or relative ("a/b")
Paths == [abs : BOOLEAN, parts : Nodes]

Parent(node) == SubSeq(node, 1, Len(node) - 1)

\* Python values: every value carries its type
PyInt(i) == [t |-> "int", v |-> i]
PyStr(x) == [t |-> "str", v |-> x]
PyNone == [t |-> "NoneType", v |-> "None"]
\* an object json cannot serialize (a datetime, a Path), with its str() form
PyObject(x) == [t |-> "object", v |-> x]
PyList(q) == [t |-> "list", v |-> q]
PyTuple(q) == [t |-> "tuple", v |-> q]
\* a dict is a function from its keys to its values
PyDict(f) == [t |-> "dict", v |-> f]

EmptyDict == PyDict([k \in {} |-> PyNone])

PyScalars == {PyInt(1), PyStr("a"), PyNone, PyObject("o")}
PyKeys == {PyStr("k"), PyInt(1), PyTuple(<<>>)}
PyInner ==
    PyScalars \cup {PyList(<<>>)} \cup {PyList(<<x>>) : x \in PyScalars}
              \cup {PyTuple(<<x>>) : x \in PyScalars}

\* the data arguments tried: dicts of at most one item
PyData == {EmptyDict} \cup {PyDict(k :> x) : k \in PyKeys, x \in PyInner}

\* JSON documents, as json.dump writes and json.load reads them
JNumber(i) == [t |-> "number", v |-> i]
JString(x) == [t |-> "string", v |-> x]
JNull == [t |-> "null", v |-> "null"]
JArray(q) == [t |-> "array", v |-> q]
JObject(f) == [t |-> "object", v |-> f]

\* the text of a file: a JSON document, or text json.load rejects
JsonText(doc) == [valid |-> TRUE, doc |-> doc]
NotJson == [valid |-> FALSE, doc |-> JNull]

\* the key of a JSON object for a dict key: str keys as they are, int keys
\* as their decimal text; other keys are a TypeError (default= is not applied
\* to keys)
KeyOk(k) == k.t \in {"str", "int"}
KeyText(k) == IF k.t = "str" THEN k.v ELSE IF k.v = 1 THEN "1" ELSE "0"

RECURSIVE Serializable(_)
Serializable(x) ==
    IF x.t \in {"list", "tuple"}
    THEN \A i \in 1..Len(x.v) : Serializable(x.v[i])
    ELSE IF x.t = "dict"
    THEN \A k \in DOMAIN x.v : KeyOk(k) /\ Serializable(x.v[k])
    ELSE TRUE

\* json.dump(data, f, indent=2, default=str): lists and tuples become arrays,
\* dicts become objects with text keys, an object json does not know becomes
\* the string str(object)
RECURSIVE json_dump(_)
json_dump(x) ==
    IF x.t = "int" THEN JNumber(x.v)
    ELSE IF x.t = "str" THEN JString(x.v)
    ELSE IF x.t = "NoneType" THEN JNull
    ELSE IF x.t = "object" THEN JString(x.v)
    ELSE IF x.t \in {"list", "tuple"}
    THEN JArray([i \in 1..Len(x.v) |-> json_dump(x.v[i])])
    ELSE JObject([key \in {KeyText(k) : k \in DOMAIN x.v} |->
                    json_dump(x.v[CHOOSE k \in DOMAIN x.v : KeyText(k) = key])])

\* json.load: arrays become lists, objects dicts with str keys
RECURSIVE json_load(_)
json_load(j) ==
    IF j.t = "number" THEN PyInt(j.v)
    ELSE IF j.t = "string" THEN PyStr(j.v)
    ELSE IF j.t = "null" THEN PyNone
    ELSE IF j.t = "array"
    THEN PyList([i \in 1..Len(j.v) |-> json_load(j.v[i])])
    ELSE PyDict([k \in {PyStr(key) : key \in DOMAIN j.v} |-> json_load(j.v[k.v])])

\* os.path.exists(filepath)
exists(ds, fs, path) == path.parts \in ds \/ path.parts \in DOMAIN fs

\* os.path.dirname(filepath) is the empty string for a relative path of one
\* component
DirnameIsEmpty(path) == ~path.abs /\ Len(path.parts) = 1

Prefixes(node) == {SubSeq(node, 1, n) : n \in 1..Len(node)}

\* mutant of load_json_file: no existence check, open() raises on a missing
\* file
load_json_file_NoCheck(ds, fs, path) ==
    IF ~exists(ds, fs, path) THEN Raise("FileNotFoundError")
    ELSE IF path.parts \in ds THEN Raise("IsADirectoryError")
    ELSE IF ~fs[path.parts].valid THEN Raise("JSONDecodeError")
    ELSE Ok(json_load(fs[path.parts].doc))

\* load_json_file: `if not os.path.exists(filepath): return None`, then
\* open(filepath, 'r') and json.load
load_json_file(ds, fs, path) ==
    IF ~exists(ds, fs, path) THEN Ok(PyNone)
    ELSE IF path.parts \in ds THEN Raise("IsADirectoryError")
    ELSE IF ~fs[path.parts].valid THEN Raise("JSONDecodeError")
    ELSE Ok(json_load(fs[path.parts].doc))

\* save_json_file: os.makedirs(os.path.dirname(filepath), exist_ok=True),
\* open(filepath, 'w'), json.dump(data, f, indent=2, default=str).
\* Gives the outcome and the file system left behind.
save_json_file(ds, fs, path, data) ==
    LET dir == Parent(path.parts)
        made == ds \cup Prefixes(dir)
    IN
    IF DirnameIsEmpty(path)
    THEN [out |-> Raise("FileNotFoundError"), dirs |-> ds, files |-> fs]
    ELSE IF dir \in DOMAIN fs
    THEN [out |-> Raise("FileExistsError"), dirs |-> ds, files |-> fs]
    ELSE IF \E n \in Prefixes(dir) : n \in DOMAIN fs
    THEN [out |-> Raise("NotADirectoryError"), dirs |-> ds, files |-> fs]
    ELSE IF path.parts \in made
    THEN [out |-> Raise("IsADirectoryError"), dirs |-> made, files |-> fs]
    ELSE IF ~Serializable(data)
    THEN [out |-> Raise("TypeError"), dirs |-> made,
          files |-> (path.parts :> NotJson) @@ fs]
    ELSE [out |-> Ok(PyNone), dirs |-> made,
          files |-> (path.parts :> JsonText(json_dump(data))) @@ fs]

\* what a file holds before the first call
OldTexts == {NotJson, JsonText(json_dump(PyDict(PyStr("k") :> PyInt(1))))}

RECURSIVE NodeSetsUpTo(_)
NodeSetsUpTo(n) ==
    IF n = 0 THEN {{}}
    ELSE LET smaller == NodeSetsUpTo(n - 1) IN
         smaller \cup {e \cup {x} : e \in smaller, x \in Nodes}

\* the file systems the first call can find: every entry's parent is a
\* directory
InitialFileSystems ==
    UNION {
      UNION {
        {[dirs |-> d, files |-> f] : f \in [e \ d -> OldTexts]}
        : d \in {d \in SUBSET e :
                    \A n \in e : Len(n) > 1 => Parent(n) \in d}}
      : e \in NodeSetsUpTo(MaxEntries)}

JsonInit ==
    /\ \E fsys \in InitialFileSystems :
          dirs = fsys.dirs /\ files = fsys.files
    /\ jpath \in Paths
    /\ jdata \in PyData
    /\ jpc = "start"
    /\ jout = None

\* a caller calls save_json_file(jpath, jdata)
CallSave ==
    /\ jpc = "start"
    /\ LET r == save_json_file(dirs, files, jpath, jdata) IN
          /\ jout' = r.out
          /\ dirs' = r.dirs
          /\ files' = r.files
    /\ jpc' = "saved"
    /\ UNCHANGED <<jpath, jdata>>

\* a caller calls load_json_file(jpath), first or after the save
CallLoad ==
    /\ jpc \in {"start", "saved"}
    /\ jout' = load_json_file(dirs, files, jpath)
    /\ jpc' = (IF jpc = "start" THEN "loaded" ELSE "saved_loaded")
    /\ UNCHANGED <<dirs, files, jpath, jdata>>

JsonIdle ==
    /\ dirs = {} /\ files = <<>> /\ jpc = "idle" /\ jpath = <<>>
    /\ jdata = None /\ jout = None

(***************************************************************************)
(*                         utils.py : generate_id                          *)
(***************************************************************************)

\* the prefixes tried: the default "id", and "task"
IdPrefixes == {<<"i", "d">>, <<"t", "a", "s", "k">>}

\* the process ids tried
Pids == {1, 4242}

\* the calls of one run (the test's range(100), bounded), the furthest the
\* clock moves forward between two calls and the furthest an adjustment of
\* the system clock sets it back, in microseconds
NumCalls == 4
MaxTick == 2
MaxBack == 1

\* datetime.now(timezone.utc).isoformat(): the text of the clock value read,
\* to the microsecond; distinct clock values give distinct texts
isoformat(ts) == NatStr(ts)

\* hashlib.sha256(hash_input.encode()).hexdigest()[:12]: a fixed function of
\* its input. The digest of an input is written <<"#">> \o input, so that
\* equal inputs give equal digests and distinct inputs distinct ones.
sha256_hex12(hash_input) == <<"#">> \o hash_input

\* generate_id: hash_input = f"{prefix}-{timestamp}-{os.getpid()}",
\* `return f"{prefix}-{hash_value}"`
generate_id(prefix, ts, pid) ==
    LET timestamp == isoformat(ts)
        hash_input == prefix \o <<"-">> \o timestamp \o <<"-">> \o str(pid)
        hash_value == sha256_hex12(hash_input)
    IN prefix \o <<"-">> \o hash_value

IdIdle ==
    /\ gprefix = <<>> /\ gpid = 0 /\ gclock = 0 /\ gmoved = FALSE
    /\ gstamps = <<>> /\ gids = <<>>

IdInit ==
    /\ gprefix \in IdPrefixes
    /\ gpid \in Pids
    /\ gclock \in 0..MaxBack
    /\ gmoved = FALSE
    /\ gstamps = <<>>
    /\ gids = <<>>

\* between two calls the wall clock moves: forward with time, or back when
\* the system clock is adjusted; when two calls follow each other within the
\* clock's resolution it does not move at all (this action is then skipped)
ClockMoves ==
    /\ ~gmoved /\ Len(gids) < NumCalls
    /\ \E d \in (0 - MaxBack)..MaxTick :
          /\ d # 0
          /\ gclock + d >= 0
          /\ gclock' = gclock + d
    /\ gmoved' = TRUE
    /\ UNCHANGED <<gprefix, gpid, gstamps, gids>>

\* one call of generate_id(prefix) of the run of NumCalls calls
CallGenerateId ==
    /\ Len(gids) < NumCalls
    /\ gids' = Append(gids, generate_id(gprefix, gclock, gpid))
    /\ gstamps' = Append(gstamps, gclock)
    /\ gmoved' = FALSE
    /\ UNCHANGED <<gprefix, gpid, gclock>>

Init == CliInit /\ VerIdle /\ JsonIdle /\ IdIdle

Next ==
    \/ MainStage /\ UNCHANGED <<verVars, jsonVars, idVars>>
    \/ MainAll /\ UNCHANGED <<verVars, jsonVars, idVars>>
    \/ MainInfo /\ UNCHANGED <<verVars, jsonVars, idVars>>
    \/ CmdAllLoop /\ UNCHANGED <<verVars, jsonVars, idVars>>
    \/ RunScriptMissing /\ UNCHANGED <<verVars, jsonVars, idVars>>
    \/ RunScriptNoBash /\ UNCHANGED <<verVars, jsonVars, idVars>>
    \/ RunScriptSpawn /\ UNCHANGED <<verVars, jsonVars, idVars>>
    \/ SubprocessExit /\ UNCHANGED <<verVars, jsonVars, idVars>>
    \/ StageReturnMain /\ UNCHANGED <<verVars, jsonVars, idVars>>
    \/ StageReturnAll /\ UNCHANGED <<verVars, jsonVars, idVars>>

Spec == Init /\ [][Next]_vars

NextVersion ==
    \/ CallParseVersion /\ UNCHANGED <<cliVars, jsonVars, idVars>>
    \/ CallBumpVersion /\ UNCHANGED <<cliVars, jsonVars, idVars>>

InitVersion == CliIdle /\ VerInit /\ JsonIdle /\ IdIdle

SpecVersion == InitVersion /\ [][NextVersion]_vars

NextJson ==
    \/ CallSave /\ UNCHANGED <<cliVars, verVars, idVars>>
    \/ CallLoad /\ UNCHANGED <<cliVars, verVars, idVars>>

InitJson == CliIdle /\ VerIdle /\ JsonInit /\ IdIdle

SpecJson == InitJson /\ [][NextJson]_vars

NextId ==
    \/ ClockMoves /\ UNCHANGED <<cliVars, verVars, jsonVars>>
    \/ CallGenerateId /\ UNCHANGED <<cliVars, verVars, jsonVars>>

InitId == CliIdle /\ VerIdle /\ JsonIdle /\ IdInit

SpecId == InitId /\ [][NextId]_vars

(***************************************************************************)
(*                    Properties of the pipeline runner                    *)
(***************************************************************************)

\* the order of the pipeline as documented: lint -> test -> build -> docker
\* -> publish
FixedOrder == <<"lint", "test", "build", "docker", "publish">>

IsPrefix(s, t) == Len(s) <= Len(t) /\ \A i \in 1..Len(s) : s[i] = t[i]

\* the scripts asked of run_script, in call order
Called == [i \in 1..Len(calls) |-> calls[i].script]

\* the scripts for which a subprocess was started, in start order
StartedCalls == SelectSeq(calls, LAMBDA r : r.started)
Invoked == [i \in 1..Len(StartedCalls) |-> StartedCalls[i].script]

\* positions of the calls whose subprocess exited with a non-zero code
FailedExits == {i \in 1..Len(calls) : calls[i].exited /\ calls[i].rc # 0}

\* positions of the calls that returned a non-zero value
FailedCalls == {i \in 1..Len(calls) : calls[i].returned /\ calls[i].ret # 0}

Min(S) == CHOOSE m \in S : \A n \in S : m <= n

\* C1: in a run of `all`, the stage scripts invoked so far are always a prefix
\* of lint, test, build, docker, publish (so each is invoked only after all
\* earlier ones and none twice); the same holds of the stage calls made.
C1_InvokedIsPrefixOfFixedOrder ==
    command = "all" =>
        /\ IsPrefix(Invoked, FixedOrder)
        /\ IsPrefix(Called, FixedOrder)

\* C1 witness: a run of `all` that has invoked all five stage scripts
C1_Witness ==
    command = "all" /\ pc = "exit" /\ Invoked = FixedOrder

\* C2: in a run of `all`, once some stage's subprocess has exited non-zero
\* with code c (the first to do so), no later stage is ever called or
\* invoked, and when cmd_all has returned its value is c.
C2_FirstFailureHaltsAndPropagates ==
    (command = "all" /\ FailedExits # {}) =>
        LET k == Min(FailedExits) IN
        /\ Len(calls) = k
        /\ pc \in {"returned", "exit"}
        /\ pc = "returned" => result = calls[k].rc
        /\ pc = "exit" => ret = calls[k].rc

\* C2 witness: `all` has returned after the test stage (stage 2) exited with
\* a code other than 0 and 1
C2_Witness ==
    /\ command = "all" /\ pc = "exit" /\ FailedExits = {2}
    /\ calls[2].script = "test" /\ calls[2].rc \notin {0, 1} /\ ret = calls[2].rc

\* C3: when cmd_all has returned, its value is 0 iff all five stages were
\* invoked and each exited with code 0; otherwise it is the first non-zero
\* stage result, which is not 0.
C3_ZeroIffAllFiveSucceed ==
    (command = "all" /\ pc = "exit") =>
        /\ (ret = 0) <=>
              /\ Invoked = FixedOrder
              /\ \A i \in 1..Len(calls) : calls[i].exited /\ calls[i].rc = 0
        /\ (ret # 0) =>
              /\ FailedCalls # {}
              /\ ret = calls[Min(FailedCalls)].ret

\* C3 witness: `all` returned 0 after five stages that exited with 0
C3_Witness ==
    /\ command = "all" /\ pc = "exit" /\ ret = 0 /\ Len(calls) = 5
    /\ \A i \in 1..5 : calls[i].exited /\ calls[i].rc = 0

\* C4: for a single-stage command whose script existed and whose shell was
\* found when run_script was called, exactly one subprocess was started, it
\* ran <stage>.sh, and once the command has returned its value is the
\* subprocess's exit code unchanged.
C4_SingleStageReturnsExitCode ==
    (command \in Stages /\ Len(calls) >= 1 /\ calls[1].exists /\ calls[1].shell) =>
        /\ Len(calls) = 1
        /\ calls[1].script = command
        /\ calls[1].started
        /\ running \subseteq {shell_cmd(command)}
        /\ shell_cmd(command)[2] = <<"scripts", command, ".sh">>
        /\ ~calls[1].exited => running = {shell_cmd(command)}
        /\ pc = "exit" => (calls[1].exited /\ ret = calls[1].rc)

\* C4 witness: a single-stage command returned a negative exit code
C4_Witness ==
    /\ command \in Stages /\ pc = "exit" /\ Len(calls) = 1
    /\ calls[1].exists /\ calls[1].shell /\ calls[1].exited
    /\ calls[1].rc < 0 /\ ret = calls[1].rc

\* C5: a run_script call made when the script file does not exist starts no
\* subprocess and returns 1; a call made when the script exists but the shell
\* is not found also returns 1.
C5_MissingScriptOrShellReturnsOne ==
    \A i \in 1..Len(calls) :
        /\ ~calls[i].exists =>
              /\ ~calls[i].started
              /\ calls[i].returned /\ calls[i].ret = 1
              /\ (i = Len(calls) /\ pc = "returned") => result = 1
        /\ (calls[i].exists /\ ~calls[i].shell) =>
              /\ calls[i].returned /\ calls[i].ret = 1
              /\ (i = Len(calls) /\ pc = "returned") => result = 1

\* C5 witness: in one run of `all`, lint ran and removed test.sh, and the
\* test stage then returned 1 without starting anything
C5_Witness ==
    /\ command = "all" /\ pc = "exit" /\ Len(calls) = 2
    /\ calls[1].started /\ ~calls[2].exists /\ ~calls[2].started /\ ret = 1

\* C5 second witness: the script exists, the shell does not
C5_WitnessNoShell ==
    /\ pc = "returned" /\ Len(calls) = 1
    /\ calls[1].exists /\ ~calls[1].shell /\ result = 1

\* C6: at most one stage subprocess is running at any time, and every call
\* but the last one has returned, its subprocess (if any) having exited with
\* its code observed, before the next one starts.
C6_AtMostOneSubprocess ==
    /\ Cardinality(running) <= 1
    /\ running # {} => pc = "waiting"
    /\ \A i \in 1..Len(calls) :
          i < Len(calls) =>
              /\ calls[i].returned
              /\ calls[i].started => (calls[i].exited /\ calls[i].ret = calls[i].rc)

\* C6 witness: in a run of `all` the docker stage is running, the three
\* before it having exited
C6_Witness ==
    /\ command = "all" /\ pc = "waiting" /\ Len(calls) = 4
    /\ running = {shell_cmd("docker")}

(***************************************************************************)
(*                   Properties of the version utilities                   *)
(***************************************************************************)

\* positions of the separators of a string, and its k-th piece between them
DotPositions(x) == {i \in 1..Len(x) : x[i] = "."}

NthDot(x, k) ==
    IF k = 0 THEN 0
    ELSE IF k > Cardinality(DotPositions(x)) THEN Len(x) + 1
    ELSE CHOOSE i \in DotPositions(x) :
             Cardinality({j \in DotPositions(x) : j < i}) = k - 1

Piece(x, k) == SubSeq(x, NthDot(x, k - 1) + 1, NthDot(x, k) - 1)

PieceCount(x) == Cardinality(DotPositions(x)) + 1

\* a non-negative integer in decimal, and its value
IsNumeral(x) == Len(x) > 0 /\ \A i \in 1..Len(x) : IsDigit(x[i])

RECURSIVE Pow10(_)
Pow10(n) == IF n = 0 THEN 1 ELSE 10 * Pow10(n - 1)

RECURSIVE NumeralValueFrom(_, _)
NumeralValueFrom(x, i) ==
    IF i > Len(x) THEN 0
    ELSE DigitValue(x[i]) * Pow10(Len(x) - i) + NumeralValueFrom(x, i + 1)

NumeralValue(x) == NumeralValueFrom(x, 1)

\* the decimal form without leading zeros
IsCanonical(x) == IsNumeral(x) /\ (Len(x) = 1 \/ x[1] # "0")

\* 'M.m.p' : three numerals separated by two dots
IsMmp(x) == PieceCount(x) = 3 /\ \A k \in 1..3 : IsNumeral(Piece(x, k))

\* the string is exactly the canonical 'A.B.C' of the given numbers
Renders(x, A, B, C) ==
    /\ PieceCount(x) = 3
    /\ \A k \in 1..3 : IsCanonical(Piece(x, k))
    /\ NumeralValue(Piece(x, 1)) = A
    /\ NumeralValue(Piece(x, 2)) = B
    /\ NumeralValue(Piece(x, 3)) = C

\* C7: for a version 'M.m.p' of non-negative integers bump_version returns
\* 'M+1.0.0' for major, 'M.m+1.0' for minor, 'M.m.p+1' for patch, and the
\* call without a kind returns what patch returns.
C7_BumpVersionRules ==
    (vop = "bump_version" /\ IsMmp(vstr)) =>
        LET M == NumeralValue(Piece(vstr, 1))
            m == NumeralValue(Piece(vstr, 2))
            p == NumeralValue(Piece(vstr, 3))
        IN
        /\ vout.exc = "none"
        /\ vkind = "major" => Renders(vout.val, M + 1, 0, 0)
        /\ vkind = "minor" => Renders(vout.val, M, m + 1, 0)
        /\ vkind = "patch" => Renders(vout.val, M, m, p + 1)
        /\ vkind = Omitted => Renders(vout.val, M, m, p + 1)

\* C7 witness: bump_version("1.9.9", "minor") returned "1.10.0"
C7_Witness ==
    /\ vop = "bump_version" /\ vkind = "minor"
    /\ vstr = <<"1", ".", "9", ".", "9">>
    /\ vout.exc = "none"
    /\ vout.val = <<"1", ".", "1", "0", ".", "0">>

\* C7 second witness: the call without a kind on "0.1.0" returned "0.1.1"
C7_WitnessOmitted ==
    /\ vop = "bump_version" /\ vkind = Omitted
    /\ vstr = <<"0", ".", "1", ".", "0">>
    /\ vout.exc = "none"
    /\ vout.val = <<"0", ".", "1", ".", "1">>

\* C8: parse_version returns the first three components as a triple of
\* integers; it raises whenever the input has fewer than three numeric
\* components or any component is non-numeric, and never returns a tuple of
\* fewer than three integers.
C8_ParseVersionTripleOrRaise ==
    vop = "parse_version" =>
        LET numeric == {k \in 1..PieceCount(vstr) : IntAccepts(Piece(vstr, k))}
            mustRaise == Cardinality(numeric) < 3
                         \/ numeric # 1..PieceCount(vstr)
        IN
        /\ mustRaise => vout.exc # "none"
        /\ vout.exc = "none" =>
              /\ Len(vout.val) = 3
              /\ \A k \in 1..3 : vout.val[k] = int(Piece(vstr, k))

\* C8, first half alone: the first three components come back as integers
\* whenever parse_version returns
C8_ReturnsLeadingComponents ==
    (vop = "parse_version" /\ vout.exc = "none") =>
        /\ Len(vout.val) <= 3
        /\ \A k \in 1..Len(vout.val) :
              IntAccepts(Piece(vstr, k)) /\ vout.val[k] = int(Piece(vstr, k))

(***************************************************************************)
(*                Properties of the JSON persistence helpers               *)
(***************************************************************************)

\* values JSON represents exactly: int, str, None, lists of such, and dicts
\* of such with str keys
RECURSIVE IsJsonNative(_)
IsJsonNative(x) ==
    IF x.t \in {"int", "str", "NoneType"} THEN TRUE
    ELSE IF x.t = "list" THEN \A i \in 1..Len(x.v) : IsJsonNative(x.v[i])
    ELSE IF x.t = "dict"
    THEN \A k \in DOMAIN x.v : k.t = "str" /\ IsJsonNative(x.v[k])
    ELSE FALSE

\* the file can be created at the path: no file stands where a parent
\* directory is needed, no directory where the file is
Creatable(path) ==
    /\ \A n \in Prefixes(Parent(path.parts)) : n \notin DOMAIN files
    /\ path.parts \notin dirs

\* C9: save_json_file(path, data) followed by load_json_file(path) returns
\* a structure equal to data, for every path and every input structure,
\* also when the parent directories did not exist before the save.
C9_SaveLoadRoundTrip ==
    jpc = "saved_loaded" => jout = Ok(jdata)

\* C9 on the inputs nobody disputes: data JSON represents exactly, and a path
\* at which the file can be created
C9_SaveLoadRoundTripNative ==
    (jpc = "saved_loaded" /\ IsJsonNative(jdata) /\ Creatable(jpath)) =>
        jout = Ok(jdata)

\* what does hold: the round trip of data JSON represents exactly, at a path
\* with a directory part at which the file can be created
RoundTripWithDirectoryPart ==
    (jpc = "saved_loaded" /\ IsJsonNative(jdata) /\ Creatable(jpath)
     /\ ~DirnameIsEmpty(jpath)) =>
        jout = Ok(jdata)

\* C10: load_json_file on a path that does not exist returns None, raises
\* nothing, and leaves the file system as it was.
C10_LoadAbsentReturnsNone ==
    [][(jpc' \in {"loaded", "saved_loaded"} /\ jpc' # jpc
        /\ ~exists(dirs, files, jpath))
       => (jout' = Ok(PyNone) /\ dirs' = dirs /\ files' = files)]_vars

\* C10 witness: load_json_file was called on "/a/b/a", nothing of which
\* existed, returned None, and nothing exists after it
C10_Witness ==
    /\ jpc = "loaded" /\ jpath = [abs |-> TRUE, parts |-> <<"a", "b", "a">>]
    /\ dirs = {} /\ DOMAIN files = {}
    /\ jout = Ok(PyNone)

(***************************************************************************)
(*                 Properties of the identifier generator                  *)
(***************************************************************************)

StartsWith(x, head) == IsPrefix(head, x)

\* C11: the calls of a run of generate_id with one prefix in one process
\* return pairwise distinct strings, each starting with '<prefix>-', and
\* each result is determined by the prefix, the timestamp and the process id
\* alone (calls that read the same timestamp return the same string).
C11_RunOfIdsDistinct ==
    Len(gids) = NumCalls =>
        /\ \A i, j \in 1..NumCalls : i # j => gids[i] # gids[j]
        /\ \A i \in 1..NumCalls : StartsWith(gids[i], gprefix \o <<"-">>)
        /\ \A i, j \in 1..NumCalls :
              gstamps[i] = gstamps[j] => gids[i] = gids[j]

\* what does hold of a run: the prefix of every result, and that the result
\* is a function of prefix, timestamp and process id, so that the results
\* are distinct exactly where the timestamps read are
IdsPrefixedAndDetermined ==
    /\ \A i \in 1..Len(gids) : StartsWith(gids[i], gprefix \o <<"-">>)
    /\ \A i, j \in 1..Len(gids) :
          (gstamps[i] = gstamps[j]) <=> (gids[i] = gids[j])

====
